---- MODULE Spec2Model ----
(***************************************************************************)
(* State-machine model of the StepperMotor class                           *)
(* (Firmware/src/StepperMotor.cpp, StepperMotor.h) and of the host loop    *)
(* that drives it (Firmware/src/main.cpp).                                 *)
(*                                                                         *)
(* The member variables of the class are the VARIABLES below, under their  *)
(* source names.  Every public method is one action that covers the whole  *)
(* method, private helpers included.  The hardware is the environment:     *)
(* the microsecond counter read by micros(), the two limit-switch inputs   *)
(* read by digitalRead(), and the output pins written by digitalWrite().   *)
(*                                                                         *)
(* `unsigned long' is 32 bits wide on the supported boards.  A value u of  *)
(* that type is stored here as u - 2^31 (see U32), which keeps it inside   *)
(* the integers of the model checker while preserving order and            *)
(* arithmetic modulo 2^32.  `long' positions stay far from the 32-bit      *)
(* boundary within the bounds below, so they are plain integers.           *)
(***************************************************************************)
EXTENDS Integers, Naturals, Sequences, FiniteSets, TLC

-----------------------------------------------------------------------------
(* Program constants *)

HOMING_SPEED == 3000

RampScale == 5

DefaultLowerLimit == -2000000000

DefaultUpperLimit == 2000000000

FindHomeExtraSteps == 10

StartDelayMicros == 10

MicrosPerSecond == 1000000

MS_ENABLED == "MS_ENABLED"

MS_DISABLED == "MS_DISABLED"

MS_RUNNING == "MS_RUNNING"

MS_ESTOPPED == "MS_ESTOPPED"

MotorState == {MS_ENABLED, MS_DISABLED, MS_RUNNING, MS_ESTOPPED}

OKAY == "OKAY"

RUN_COMPLETE == "RUN_COMPLETE"

RANGE_ERROR_LOWER == "RANGE_ERROR_LOWER"

RANGE_ERROR_UPPER == "RANGE_ERROR_UPPER"

LIMIT_SWITCH_LOWER == "LIMIT_SWITCH_LOWER"

LIMIT_SWITCH_UPPER == "LIMIT_SWITCH_UPPER"

RunReturn ==
  {OKAY, RUN_COMPLETE, RANGE_ERROR_LOWER, RANGE_ERROR_UPPER,
   LIMIT_SWITCH_LOWER, LIMIT_SWITCH_UPPER}

LOW == "LOW"

HIGH == "HIGH"

-----------------------------------------------------------------------------
(* Bounds of the model *)

\* the loop follows the motor to positions -MaxPos .. MaxPos; rotate arguments
MaxPos == 2

\* arguments of SetLowerLimit / SetUpperLimit are -MaxLim and MaxLim
MaxLim == 1

\* length of one clock advance of the environment, in microseconds
TickMicros == 100000

\* number of clock advances
MaxTicks == 1

\* pulses FindHome emits in each of its two seek loops: 0 .. MaxSeek
MaxSeek == 1

PosRange == (0 - MaxPos) .. MaxPos

LimitInputs == {0 - MaxLim, MaxLim}

\* stepsPerSecond arguments of the loop specification
Velocities == {30}

\* ramp arguments of the loop specification (10 is out of range)
RampInputs == {0, 9, 10}

\* limit switch pins given to the constructor: -1 is "no switch"
PinInputs == {-1, 7}

\* arguments of the loop around an instance with limit switches
SwitchRampInputs == {10}

SwitchVelocities == {30}

\* longest rotation of the polling host
MaxN == 5

\* microseconds left on the counter before it wraps, when an instance is made
\* late in the counter's cycle
WrapLead == 5

\* rotate commands issued by the host of an instance with limit switches
MaxCommands == 3

PollSteps == ((0 - MaxN) .. MaxN) \ {0}

PollVelocities == {1, 12, 30}

-----------------------------------------------------------------------------
(* unsigned long: 32 bits, stored with a bias of 2^31 *)

U32Min == -2147483647 - 1

U32Max == 2147483647

\* the unsigned long value n, for 0 <= n < 2^31
U32(n) == U32Min + n

\* x + d modulo 2^32, for 0 <= d < 2^31
U32Add(x, d) ==
  IF x <= U32Max - d THEN x + d
  ELSE (((x - U32Max) - 1) + d) + U32Min

abs(x) == IF x < 0 THEN 0 - x ELSE x

-----------------------------------------------------------------------------
VARIABLES
  Homed, State, StepIncrement, AbsolutePosition, DeltaPosition,
  TargetPosition, LowerLimit, UpperLimit, RampSteps, RampDownStep,
  Velocity, VelocityIncrement, NextStepMicros, MaxVelocity, TotalSteps,
  LLSwitchPin, ULSwitchPin,      \* constructor arguments
  EnableOut, DirectionOut,       \* levels last written to the output pins
  LLSwitch, ULSwitch,            \* levels of the limit switch inputs
  epoch, elapsed,                \* micros() at construction; time since then
  ret,                           \* result of the last call if Run, else OKAY
  pulses,                        \* step pulses emitted by the last call
  EStopLatched,                  \* history: EStop called and no Enable since
  pc, cmd                        \* host program position, its rotate command

motorVars ==
  <<Homed, State, StepIncrement, AbsolutePosition, DeltaPosition,
    TargetPosition, LowerLimit, UpperLimit, RampSteps, RampDownStep,
    Velocity, VelocityIncrement, NextStepMicros, MaxVelocity, TotalSteps>>

pinVars == <<LLSwitchPin, ULSwitchPin>>

outVars == <<EnableOut, DirectionOut>>

envVars == <<LLSwitch, ULSwitch, epoch, elapsed>>

hostVars == <<pc, cmd>>

vars ==
  <<motorVars, pinVars, outVars, envVars, ret, pulses, EStopLatched,
    hostVars>>

\* the value micros() returns now
micros == U32Add(epoch, elapsed)

-----------------------------------------------------------------------------
(* Constructor *)

Construct(llSwitchPin, ulSwitchPin) ==
  /\ LLSwitchPin = llSwitchPin
  /\ ULSwitchPin = ulSwitchPin
  /\ EnableOut = HIGH
  /\ DirectionOut = LOW
  /\ Homed = FALSE
  /\ State = MS_DISABLED
  /\ StepIncrement = 1
  /\ AbsolutePosition = 0
  /\ DeltaPosition = 0
  /\ TargetPosition = 0
  /\ LowerLimit = DefaultLowerLimit
  /\ UpperLimit = DefaultUpperLimit
  /\ RampSteps = 0
  /\ RampDownStep = 0
  /\ Velocity = 0
  /\ VelocityIncrement = RampScale * 5
  /\ NextStepMicros = U32Max
  /\ MaxVelocity = 0
  /\ TotalSteps = 0

\* the hardware around a new instance
Environment(epochs, levels) ==
  /\ epoch \in epochs
  /\ elapsed = 0
  /\ LLSwitch \in levels
  /\ ULSwitch \in levels

Fresh(pins, epochs, levels) ==
  /\ \E ll \in pins, ul \in pins : Construct(ll, ul)
  /\ Environment(epochs, levels)
  /\ ret = OKAY
  /\ pulses = 0
  /\ EStopLatched = FALSE

NoCmd == [op |-> "none", n |-> 0, v |-> 0]

\* an instance without limit switches, made when the counter starts
Init == Fresh({-1}, {U32(0)}, {HIGH}) /\ pc = "loop" /\ cmd = NoCmd

-----------------------------------------------------------------------------
(* Helpers of the methods *)

\* integer division of C: the quotient is truncated toward zero
CDiv(a, b) ==
  IF (a >= 0) = (b > 0) THEN abs(a) \div abs(b) ELSE 0 - (abs(a) \div abs(b))

\* a call that is not Run reports nothing and, FindHome apart, does not pulse
NotRun == ret' = OKAY /\ pulses' = 0

\* variant: the step time is not consulted
RunDueAnyTime == Homed /\ State = MS_RUNNING

\* variant: Homed is not consulted
RunDueUnhomed == State = MS_RUNNING /\ micros >= NextStepMicros

\* variant: the state is not consulted
RunDueAnyState == Homed /\ micros >= NextStepMicros

\* Run: "Is the motor RUNNING and is it time for it to step"
RunDue == Homed /\ State = MS_RUNNING /\ micros >= NextStepMicros

\* variant: the target counts as reached one step early
AtTargetEarly == abs(TargetPosition - AbsolutePosition) <= 1

\* variant: the target is recognised one step beyond it
AtTargetOvershoot == AbsolutePosition = TargetPosition + StepIncrement

\* variant: only a rotation that has moved can complete
AtTargetAfterMove == AbsolutePosition = TargetPosition /\ DeltaPosition # 0

\* Run: "Is the motor at the target position?"
AtTarget == AbsolutePosition = TargetPosition

\* variants: range checks that are off by one
BelowLowerLimitStrict(np) == np <= LowerLimit

AboveUpperLimitLoose(np) == np > UpperLimit + 1

AboveUpperLimitEager(np) == np >= UpperLimit

\* Run: the range checks of the next position
BelowLowerLimit(np) == np < LowerLimit

AboveUpperLimit(np) == np > UpperLimit

\* variant: the lower switch is read without looking at its pin
LowerSwitchAnyPin(level) == level = LOW

\* variant: the upper switch is not read
UpperSwitchTriggeredNever(level) == FALSE

\* Run: a limit switch is read only when its pin was specified
LowerSwitchTriggered(level) == LLSwitchPin >= 0 /\ level = LOW

UpperSwitchTriggered(level) == ULSwitchPin >= 0 /\ level = LOW

\* variant: the ramp up ends one step early
RampedVelocityShortRamp(stepCount) ==
  IF stepCount < RampSteps THEN Velocity + VelocityIncrement
  ELSE IF stepCount > RampDownStep THEN Velocity - VelocityIncrement
  ELSE Velocity

\* Run: "Adjust velocity if ramping"
RampedVelocity(stepCount) ==
  IF stepCount <= RampSteps THEN Velocity + VelocityIncrement
  ELSE IF stepCount > RampDownStep THEN Velocity - VelocityIncrement
  ELSE Velocity

\* Run: "Set time for next step"
ScheduledMicros(v) ==
  IF v > 0 THEN U32Add(NextStepMicros, CDiv(MicrosPerSecond, v))
  ELSE NextStepMicros

\* levels an input can show during a call
Levels(pin, level) == IF pin >= 0 THEN {LOW, HIGH} ELSE {level}

-----------------------------------------------------------------------------
(* Run *)

RunIdle ==
  /\ ~RunDue
  /\ ret' = OKAY
  /\ pulses' = 0
  /\ UNCHANGED <<motorVars, outVars, envVars, EStopLatched>>

RunComplete ==
  /\ RunDue
  /\ AtTarget
  /\ State' = MS_ENABLED
  /\ ret' = RUN_COMPLETE
  /\ pulses' = 0
  /\ UNCHANGED <<Homed, StepIncrement, AbsolutePosition, DeltaPosition,
                 TargetPosition, LowerLimit, UpperLimit, RampSteps,
                 RampDownStep, Velocity, VelocityIncrement,
                 NextStepMicros, MaxVelocity, TotalSteps>>
  /\ UNCHANGED <<outVars, envVars, EStopLatched>>

RunRangeError ==
  /\ RunDue
  /\ ~AtTarget
  /\ LET np == AbsolutePosition + StepIncrement IN
       /\ BelowLowerLimit(np) \/ AboveUpperLimit(np)
       /\ State' = MS_ENABLED
       /\ ret' = IF BelowLowerLimit(np) THEN RANGE_ERROR_LOWER
                 ELSE RANGE_ERROR_UPPER
  /\ pulses' = 0
  /\ UNCHANGED <<Homed, StepIncrement, AbsolutePosition, DeltaPosition,
                 TargetPosition, LowerLimit, UpperLimit, RampSteps,
                 RampDownStep, Velocity, VelocityIncrement,
                 NextStepMicros, MaxVelocity, TotalSteps>>
  /\ UNCHANGED <<outVars, envVars, EStopLatched>>

\* the pulse may move the mechanism onto or off a switch before it is read;
\* the model follows the motor no farther than reach steps from HOME
RunStep(reach) ==
  /\ RunDue
  /\ ~AtTarget
  /\ LET np == AbsolutePosition + StepIncrement
         dp == DeltaPosition + StepIncrement
     IN
       /\ ~BelowLowerLimit(np)
       /\ ~AboveUpperLimit(np)
       /\ abs(np) <= reach
       /\ pulses' = 1
       /\ AbsolutePosition' = np
       /\ DeltaPosition' = dp
       /\ \E ll \in Levels(LLSwitchPin, LLSwitch),
             ul \in Levels(ULSwitchPin, ULSwitch) :
            /\ LLSwitch' = ll
            /\ ULSwitch' = ul
            /\ IF LowerSwitchTriggered(ll)
               THEN /\ State' = MS_ENABLED
                    /\ ret' = LIMIT_SWITCH_LOWER
                    /\ UNCHANGED <<Velocity, NextStepMicros>>
               ELSE IF UpperSwitchTriggered(ul)
               THEN /\ State' = MS_ENABLED
                    /\ ret' = LIMIT_SWITCH_UPPER
                    /\ UNCHANGED <<Velocity, NextStepMicros>>
               ELSE /\ State' = State
                    /\ ret' = OKAY
                    /\ Velocity' = RampedVelocity(abs(dp))
                    /\ NextStepMicros' = ScheduledMicros(RampedVelocity(abs(dp)))
  /\ UNCHANGED <<Homed, StepIncrement, TargetPosition, LowerLimit, UpperLimit,
                 RampSteps, RampDownStep, VelocityIncrement, MaxVelocity,
                 TotalSteps>>
  /\ UNCHANGED <<outVars, epoch, elapsed, EStopLatched>>

Run(reach) == RunIdle \/ RunComplete \/ RunRangeError \/ RunStep(reach)

-----------------------------------------------------------------------------
(* startRotation and the rotate methods *)

\* startRotation: "Determine number of steps in ramp"
FullRampSteps(maxVelocity) ==
  IF VelocityIncrement = 0 THEN 0 ELSE CDiv(maxVelocity, VelocityIncrement)

\* variant: every rotation starts from a stand-still
StartVelocityStandstill(maxVelocity) == 0

\* startRotation: "set starting speed"
StartVelocity(maxVelocity) ==
  IF VelocityIncrement = 0 THEN maxVelocity
  ELSE IF FullRampSteps(maxVelocity) = 0 THEN maxVelocity
  ELSE 0

\* variant: every plan is a trapezoid
IsTrapezoidAlways(totalSteps, rampSteps) == TRUE

\* startRotation: trapezoid or stunted triangle
IsTrapezoid(totalSteps, rampSteps) == totalSteps > 2 * rampSteps

PlanRampSteps(totalSteps, maxVelocity) ==
  IF IsTrapezoid(totalSteps, FullRampSteps(maxVelocity))
  THEN FullRampSteps(maxVelocity)
  ELSE CDiv(totalSteps, 2)

PlanRampDownStep(totalSteps, maxVelocity) ==
  IF IsTrapezoid(totalSteps, FullRampSteps(maxVelocity))
  THEN totalSteps - FullRampSteps(maxVelocity)
  ELSE CDiv(totalSteps, 2)

\* variant: two positions to a step
PlanStepIncrementDouble(target) == IF target >= AbsolutePosition THEN 2 ELSE -2

\* variant: the direction of the rotation before is kept
PlanStepIncrementKept(target) == StepIncrement

\* startRotation: "Set Direction"
PlanStepIncrement(target) == IF target >= AbsolutePosition THEN 1 ELSE -1

\* variant: the direction output is inverted
PlanDirectionInverted(target) ==
  IF target >= AbsolutePosition THEN HIGH ELSE LOW

PlanDirection(target) == IF target >= AbsolutePosition THEN LOW ELSE HIGH

\* the caller has assigned TargetPosition, MaxVelocity and TotalSteps
startRotation(target, maxVelocity, totalSteps) ==
  /\ TargetPosition' = target
  /\ MaxVelocity' = maxVelocity
  /\ TotalSteps' = totalSteps
  /\ Velocity' = StartVelocity(maxVelocity)
  /\ RampSteps' = PlanRampSteps(totalSteps, maxVelocity)
  /\ RampDownStep' = PlanRampDownStep(totalSteps, maxVelocity)
  /\ StepIncrement' = PlanStepIncrement(target)
  /\ DirectionOut' = PlanDirection(target)
  /\ DeltaPosition' = 0
  /\ NextStepMicros' = U32Add(micros, StartDelayMicros)
  /\ State' = MS_RUNNING
  /\ NotRun
  /\ UNCHANGED <<Homed, AbsolutePosition, LowerLimit, UpperLimit,
                 VelocityIncrement>>
  /\ UNCHANGED <<EnableOut, envVars, EStopLatched>>

Skip ==
  /\ NotRun
  /\ UNCHANGED <<motorVars, outVars, envVars, EStopLatched>>

RotateAbsolute(newPosition, stepsPerSecond) ==
  startRotation(newPosition, stepsPerSecond,
                abs(newPosition - AbsolutePosition))

RotateRelative(numSteps, stepsPerSecond) ==
  IF numSteps # 0
  THEN startRotation(AbsolutePosition + numSteps, stepsPerSecond,
                     abs(numSteps))
  ELSE Skip

RotateToHome == startRotation(0, HOMING_SPEED, abs(AbsolutePosition))

RotateToLowerLimit ==
  startRotation(LowerLimit, HOMING_SPEED, abs(AbsolutePosition - LowerLimit))

RotateToUpperLimit ==
  startRotation(UpperLimit, HOMING_SPEED, abs(AbsolutePosition - UpperLimit))

-----------------------------------------------------------------------------
(* Enable, Disable, homing, limits, ramp, EStop *)

\* variant: a HOME position is accepted in every state
CanSetHomeAlways(state) == TRUE

\* variant: a HOME position is accepted in every state but MS_RUNNING
CanSetHomeUnlessRunning(state) == state # MS_RUNNING

\* SetHomePosition: "Only if Enabled"
CanSetHome(state) == state = MS_ENABLED

SetHomePosition ==
  /\ IF CanSetHome(State)
     THEN AbsolutePosition' = 0 /\ DeltaPosition' = 0 /\ Homed' = TRUE
     ELSE UNCHANGED <<AbsolutePosition, DeltaPosition, Homed>>
  /\ NotRun
  /\ UNCHANGED <<State, StepIncrement, TargetPosition, LowerLimit, UpperLimit,
                 RampSteps, RampDownStep, Velocity, VelocityIncrement, NextStepMicros, MaxVelocity, TotalSteps>>
  /\ UNCHANGED <<outVars, envVars, EStopLatched>>

\* variant: Enable does not drive the enable pin
EnableWithoutPin ==
  /\ State' = MS_ENABLED
  /\ AbsolutePosition' = 0
  /\ DeltaPosition' = 0
  /\ Homed' = TRUE
  /\ EStopLatched' = FALSE
  /\ NotRun
  /\ UNCHANGED <<StepIncrement, TargetPosition, LowerLimit, UpperLimit,
                 RampSteps, RampDownStep, Velocity, VelocityIncrement,
                 NextStepMicros, MaxVelocity, TotalSteps>>
  /\ UNCHANGED <<outVars, envVars>>

\* Enable sets State before it calls SetHomePosition
Enable ==
  /\ EnableOut' = LOW
  /\ State' = MS_ENABLED
  /\ IF CanSetHome(MS_ENABLED)
     THEN AbsolutePosition' = 0 /\ DeltaPosition' = 0 /\ Homed' = TRUE
     ELSE UNCHANGED <<AbsolutePosition, DeltaPosition, Homed>>
  /\ EStopLatched' = FALSE
  /\ NotRun
  /\ UNCHANGED <<StepIncrement, TargetPosition, LowerLimit, UpperLimit,
                 RampSteps, RampDownStep, Velocity, VelocityIncrement, NextStepMicros, MaxVelocity, TotalSteps>>
  /\ UNCHANGED <<DirectionOut, envVars>>

\* variant: Disable also gives up the target, as EStop does
DisableAndStop ==
  /\ EnableOut' = HIGH
  /\ State' = MS_DISABLED
  /\ Homed' = FALSE
  /\ TargetPosition' = AbsolutePosition
  /\ NotRun
  /\ UNCHANGED <<StepIncrement, AbsolutePosition, DeltaPosition,
                 LowerLimit, UpperLimit, RampSteps,
                 RampDownStep, Velocity, VelocityIncrement,
                 NextStepMicros, MaxVelocity, TotalSteps>>
  /\ UNCHANGED <<DirectionOut, envVars, EStopLatched>>

Disable ==
  /\ EnableOut' = HIGH
  /\ State' = MS_DISABLED
  /\ Homed' = FALSE
  /\ NotRun
  /\ UNCHANGED <<StepIncrement, AbsolutePosition, DeltaPosition,
                 TargetPosition, LowerLimit, UpperLimit, RampSteps,
                 RampDownStep, Velocity, VelocityIncrement,
                 NextStepMicros, MaxVelocity, TotalSteps>>
  /\ UNCHANGED <<DirectionOut, envVars, EStopLatched>>

\* variant: FindHome sets HOME where the switch released
FindHomeNoSettle ==
  IF LLSwitchPin >= 0
  THEN \E seek \in 0 .. MaxSeek, backOff \in 0 .. MaxSeek :
         /\ (LLSwitch = LOW) => (seek = 0)
         /\ (LLSwitch = HIGH) => (seek > 0)
         /\ EnableOut' = LOW
         /\ State' = MS_ENABLED
         /\ DirectionOut' = LOW
         /\ LLSwitch' = HIGH
         /\ pulses' = seek + backOff
         /\ AbsolutePosition' = 0
         /\ DeltaPosition' = 0
         /\ Homed' = TRUE
         /\ EStopLatched' = FALSE
         /\ ret' = OKAY
         /\ UNCHANGED <<StepIncrement, TargetPosition, LowerLimit, UpperLimit,
                        RampSteps, RampDownStep, Velocity, VelocityIncrement,
                        NextStepMicros, MaxVelocity, TotalSteps>>
         /\ UNCHANGED <<ULSwitch, epoch, elapsed>>
  ELSE Skip

\* FindHome returns when the switch has asserted and released again: seek
\* pulses until the first LOW read, backOff pulses until the next HIGH read
FindHome ==
  IF LLSwitchPin >= 0
  THEN \E seek \in 0 .. MaxSeek, backOff \in 0 .. MaxSeek :
         /\ (LLSwitch = LOW) => (seek = 0)
         /\ (LLSwitch = HIGH) => (seek > 0)
         /\ EnableOut' = LOW
         /\ State' = MS_ENABLED
         /\ DirectionOut' = LOW
         /\ LLSwitch' = HIGH
         /\ pulses' = seek + backOff + FindHomeExtraSteps
         /\ IF CanSetHome(MS_ENABLED)
            THEN AbsolutePosition' = 0 /\ DeltaPosition' = 0 /\ Homed' = TRUE
            ELSE UNCHANGED <<AbsolutePosition, DeltaPosition, Homed>>
         /\ EStopLatched' = FALSE
         /\ ret' = OKAY
         /\ UNCHANGED <<StepIncrement, TargetPosition, LowerLimit, UpperLimit,
                        RampSteps, RampDownStep, Velocity, VelocityIncrement, NextStepMicros, MaxVelocity, TotalSteps>>
         /\ UNCHANGED <<ULSwitch, epoch, elapsed>>
  ELSE Skip

\* variant: a lower limit of either sign is accepted
LowerLimitValidAnySign(lowerLimit) == lowerLimit <= UpperLimit

\* "Must be <= 0 and <= UpperLimit"
LowerLimitValid(lowerLimit) == lowerLimit <= 0 /\ lowerLimit <= UpperLimit

\* "Must be >= 0 and >= LowerLimit"
UpperLimitValid(upperLimit) == upperLimit >= 0 /\ upperLimit >= LowerLimit

SetLowerLimit(lowerLimit) ==
  /\ LowerLimit' = IF LowerLimitValid(lowerLimit) THEN lowerLimit
                   ELSE LowerLimit
  /\ NotRun
  /\ UNCHANGED <<Homed, State, StepIncrement, AbsolutePosition, DeltaPosition,
                 TargetPosition, UpperLimit, RampSteps, RampDownStep,
                 Velocity, VelocityIncrement, NextStepMicros,
                 MaxVelocity, TotalSteps>>
  /\ UNCHANGED <<outVars, envVars, EStopLatched>>

SetUpperLimit(upperLimit) ==
  /\ UpperLimit' = IF UpperLimitValid(upperLimit) THEN upperLimit
                   ELSE UpperLimit
  /\ NotRun
  /\ UNCHANGED <<Homed, State, StepIncrement, AbsolutePosition, DeltaPosition,
                 TargetPosition, LowerLimit, RampSteps, RampDownStep,
                 Velocity, VelocityIncrement, NextStepMicros,
                 MaxVelocity, TotalSteps>>
  /\ UNCHANGED <<outVars, envVars, EStopLatched>>

\* SetRamp: the velocity slope of a ramp factor
RampIncrement(ramp) == IF ramp = 0 THEN 0 ELSE RampScale * (10 - ramp)

SetRamp(ramp) ==
  /\ VelocityIncrement' = IF ramp >= 0 /\ ramp <= 9 THEN RampIncrement(ramp)
                          ELSE VelocityIncrement
  /\ NotRun
  /\ UNCHANGED <<Homed, State, StepIncrement, AbsolutePosition, DeltaPosition,
                 TargetPosition, LowerLimit, UpperLimit, RampSteps,
                 RampDownStep, Velocity, NextStepMicros,
                 MaxVelocity, TotalSteps>>
  /\ UNCHANGED <<outVars, envVars, EStopLatched>>

EStop ==
  /\ EnableOut' = HIGH
  /\ State' = MS_ESTOPPED
  /\ Homed' = FALSE
  /\ TargetPosition' = AbsolutePosition
  /\ EStopLatched' = TRUE
  /\ NotRun
  /\ UNCHANGED <<StepIncrement, AbsolutePosition, DeltaPosition, LowerLimit,
                 UpperLimit, RampSteps, RampDownStep, Velocity,
                 VelocityIncrement, NextStepMicros, MaxVelocity,
                 TotalSteps>>
  /\ UNCHANGED <<DirectionOut, envVars>>

-----------------------------------------------------------------------------
(* Environment *)

\* time passes between two calls
Advance(d) ==
  /\ elapsed' = elapsed + d
  /\ UNCHANGED <<motorVars, outVars, LLSwitch, ULSwitch, epoch, ret, pulses,
                 EStopLatched>>

Tick == elapsed < MaxTicks * TickMicros /\ Advance(TickMicros)

\* a limit switch closes or opens between two calls
SwitchChange ==
  /\ \/ LLSwitchPin >= 0 /\ LLSwitch' \in {LOW, HIGH} \ {LLSwitch}
                         /\ ULSwitch' = ULSwitch
     \/ ULSwitchPin >= 0 /\ ULSwitch' \in {LOW, HIGH} \ {ULSwitch}
                         /\ LLSwitch' = LLSwitch
  /\ UNCHANGED <<motorVars, outVars, epoch, elapsed, ret, pulses,
                 EStopLatched>>

-----------------------------------------------------------------------------
(* The host loop of main.cpp: Run, then any command that has arrived *)

InLoop == pc = "loop" /\ UNCHANGED <<pinVars, hostVars>>

Loop(lowers, uppers, ramps, velocities) ==
  \/ InLoop /\ Run(MaxPos)
  \/ InLoop /\ Enable
  \/ InLoop /\ Disable
  \/ InLoop /\ FindHome
  \/ InLoop /\ SetHomePosition
  \/ InLoop /\ \E x \in lowers : SetLowerLimit(x)
  \/ InLoop /\ \E x \in uppers : SetUpperLimit(x)
  \/ InLoop /\ \E r \in ramps : SetRamp(r)
  \/ InLoop /\ \E p \in PosRange, v \in velocities : RotateAbsolute(p, v)
  \/ InLoop /\ \E n \in PosRange, v \in velocities : RotateRelative(n, v)
  \/ InLoop /\ RotateToHome
  \/ InLoop /\ RotateToLowerLimit
  \/ InLoop /\ RotateToUpperLimit
  \/ InLoop /\ EStop
  \/ InLoop /\ Tick

Next == Loop(LimitInputs, LimitInputs, RampInputs, Velocities)

Spec == Init /\ [][Next]_vars

-----------------------------------------------------------------------------
(* The same loop around an instance with limit switches, with limit and    *)
(* ramp arguments that the setters reject.  The level of an input whose    *)
(* pin was not specified is arbitrary and never changes.                   *)

SwitchInit == Fresh(PinInputs, {U32(0)}, {LOW, HIGH}) /\ pc = "loop" /\ cmd = NoCmd

SwitchNext ==
  \/ Loop({MaxLim}, {0 - MaxLim}, SwitchRampInputs, SwitchVelocities)
  \/ InLoop /\ SwitchChange

SwitchSpec == SwitchInit /\ [][SwitchNext]_vars

-----------------------------------------------------------------------------
(* A host that configures a new instance, issues one RotateRelative and    *)
(* then only polls Run while the counter advances.                          *)

At(from, to) == pc = from /\ pc' = to /\ UNCHANGED <<pinVars, cmd>>

HostSetRamp == At("new", "ramp") /\ \E r \in 0 .. 9 : SetRamp(r)

HostSetLowerLimit == At("ramp", "lower") /\ \E x \in LimitInputs : SetLowerLimit(x)

HostSetUpperLimit == At("lower", "upper") /\ \E x \in LimitInputs : SetUpperLimit(x)

HostEnable == At("upper", "enabled") /\ Enable

HostSetHomePosition == At("enabled", "homed") /\ SetHomePosition

HostRotateRelative ==
  /\ pc = "homed"
  /\ pc' = "poll"
  /\ \E n \in PollSteps, v \in PollVelocities :
       /\ RotateRelative(n, v)
       /\ cmd' = [op |-> "RR", n |-> n, v |-> v]
  /\ UNCHANGED pinVars

PollRun == pc = "poll" /\ Run(MaxN) /\ UNCHANGED <<pinVars, hostVars>>

\* the host does not delay: time passes while the next step is not yet due
PollTick ==
  /\ pc = "poll"
  /\ State = MS_RUNNING
  /\ micros < NextStepMicros
  /\ Advance(TickMicros)
  /\ UNCHANGED <<pinVars, hostVars>>

PollInit == Fresh({-1}, {U32(0)}, {HIGH}) /\ pc = "new" /\ cmd = NoCmd

PollNext ==
  \/ HostSetRamp
  \/ HostSetLowerLimit
  \/ HostSetUpperLimit
  \/ HostEnable
  \/ HostSetHomePosition
  \/ HostRotateRelative
  \/ PollRun
  \/ PollTick

PollSpec == PollInit /\ [][PollNext]_vars /\ WF_vars(PollNext)

-----------------------------------------------------------------------------
(* The same host, started either when the counter starts or WrapLead        *)
(* microseconds before the counter wraps to 0.                              *)

WrapInit ==
  /\ Fresh({-1}, {U32(0), U32Max - WrapLead}, {HIGH})
  /\ pc = "new"
  /\ cmd = NoCmd

WrapSpec == WrapInit /\ [][PollNext]_vars /\ WF_vars(PollNext)

-----------------------------------------------------------------------------
(* A host that sets the limits to the ends of PosRange, enables the motor, *)
(* starts a rotation and, while that rotation is running, issues a second  *)
(* rotate command; apart from that it polls Run.  cmd is the command last   *)
(* issued: n its target position, prev the target it replaced.             *)

\* ramp and stepsPerSecond arguments of this host
ReplanRamps == {0, 5, 8}

ReplanVelocities == {12, 30}

ReplanSetLowerLimit == At("off", "lower") /\ SetLowerLimit(0 - MaxPos)

ReplanSetUpperLimit == At("lower", "upper") /\ SetUpperLimit(MaxPos)

ReplanSetRamp == At("upper", "ramp") /\ \E r \in ReplanRamps : SetRamp(r)

ReplanEnable == At("ramp", "on") /\ Enable

ReplanFirst ==
  /\ pc = "on"
  /\ pc' = "first"
  /\ \E p \in PosRange \ {0}, v \in ReplanVelocities :
       /\ RotateAbsolute(p, v)
       /\ cmd' = [op |-> "RA", n |-> p, v |-> v]
  /\ UNCHANGED pinVars

\* the second command arrives while the first rotation is running
Interrupting ==
  /\ pc = "first"
  /\ pc' = "second"
  /\ Homed
  /\ State = MS_RUNNING
  /\ UNCHANGED pinVars

Replaced(op, target, v) ==
  cmd' = [op |-> op, n |-> target, v |-> v, prev |-> TargetPosition]

ReplanAbsolute ==
  /\ Interrupting
  /\ \E p \in PosRange, v \in ReplanVelocities :
       RotateAbsolute(p, v) /\ Replaced("RA", p, v)

ReplanRelative ==
  /\ Interrupting
  /\ \E n \in PosRange \ {0}, v \in ReplanVelocities :
       /\ AbsolutePosition + n \in PosRange
       /\ RotateRelative(n, v)
       /\ Replaced("RR", AbsolutePosition + n, v)

ReplanToHome ==
  Interrupting /\ RotateToHome /\ Replaced("RH", 0, HOMING_SPEED)

ReplanToLowerLimit ==
  Interrupting /\ RotateToLowerLimit /\ Replaced("RL", LowerLimit, HOMING_SPEED)

ReplanToUpperLimit ==
  Interrupting /\ RotateToUpperLimit /\ Replaced("RU", UpperLimit, HOMING_SPEED)

ReplanRun ==
  /\ pc \in {"first", "second"}
  /\ Run(MaxPos)
  /\ UNCHANGED <<pinVars, hostVars>>

ReplanTick ==
  /\ pc \in {"first", "second"}
  /\ State = MS_RUNNING
  /\ micros < NextStepMicros
  /\ Advance(TickMicros)
  /\ UNCHANGED <<pinVars, hostVars>>

ReplanInit == Fresh({-1}, {U32(0)}, {HIGH}) /\ pc = "off" /\ cmd = NoCmd

ReplanNext ==
  \/ ReplanSetLowerLimit
  \/ ReplanSetUpperLimit
  \/ ReplanSetRamp
  \/ ReplanEnable
  \/ ReplanFirst
  \/ ReplanAbsolute
  \/ ReplanRelative
  \/ ReplanToHome
  \/ ReplanToLowerLimit
  \/ ReplanToUpperLimit
  \/ ReplanRun
  \/ ReplanTick

ReplanSpec == ReplanInit /\ [][ReplanNext]_vars /\ WF_vars(ReplanNext)

-----------------------------------------------------------------------------
(* A host of an instance with limit switches: it enables the motor, issues *)
(* up to MaxCommands rotate commands and polls Run while the counter        *)
(* advances.  The inputs change only with a step of the motor.  cmd is the  *)
(* command last issued: k its number, lower and upper whether the switch    *)
(* was asserted when it was issued and at every Run since.                  *)

NoHeldCmd ==
  [op |-> "none", n |-> 0, v |-> 0, k |-> 0, lower |-> FALSE, upper |-> FALSE]

HeldEnable == At("off", "on") /\ Enable

Issued(op, target, v) ==
  /\ pc \in {"on", "poll"}
  /\ pc' = "poll"
  /\ cmd.k < MaxCommands
  /\ cmd' = [op |-> op, n |-> target, v |-> v, k |-> cmd.k + 1,
             lower |-> (LLSwitchPin >= 0 /\ LLSwitch = LOW),
             upper |-> (ULSwitchPin >= 0 /\ ULSwitch = LOW)]
  /\ UNCHANGED pinVars

HeldAbsolute ==
  \E p \in PosRange, v \in SwitchVelocities :
    RotateAbsolute(p, v) /\ Issued("RA", p, v)

HeldRelative ==
  \E n \in PosRange \ {0}, v \in SwitchVelocities :
    /\ AbsolutePosition + n \in PosRange
    /\ RotateRelative(n, v)
    /\ Issued("RR", AbsolutePosition + n, v)

HeldToHome == RotateToHome /\ Issued("RH", 0, HOMING_SPEED)

HeldRun ==
  /\ pc = "poll"
  /\ pc' = pc
  /\ Run(MaxPos)
  /\ cmd' = [cmd EXCEPT
               !.lower = @ /\ LLSwitchPin >= 0 /\ LLSwitch' = LOW,
               !.upper = @ /\ ULSwitchPin >= 0 /\ ULSwitch' = LOW]
  /\ UNCHANGED pinVars

HeldTick ==
  /\ pc = "poll"
  /\ State = MS_RUNNING
  /\ micros < NextStepMicros
  /\ Advance(TickMicros)
  /\ UNCHANGED <<pinVars, hostVars>>

HeldInit ==
  /\ Fresh(PinInputs, {U32(0)}, {LOW, HIGH})
  /\ pc = "off"
  /\ cmd = NoHeldCmd

HeldNext ==
  \/ HeldEnable
  \/ HeldAbsolute
  \/ HeldRelative
  \/ HeldToHome
  \/ HeldRun
  \/ HeldTick

HeldSpec == HeldInit /\ [][HeldNext]_vars

-----------------------------------------------------------------------------
(* A host that enables a new instance, starts one RotateRelative and polls *)
(* Run; while the rotation is under way it calls SetRamp once.             *)

\* ramp arguments of this host
RampChanges == {0, 1, 5, 9}

RampEnable == At("off", "on") /\ Enable

RampRotate ==
  /\ pc = "on"
  /\ pc' = "run"
  /\ \E n \in PollSteps, v \in PollVelocities :
       /\ RotateRelative(n, v)
       /\ cmd' = [op |-> "RR", n |-> n, v |-> v]
  /\ UNCHANGED pinVars

RampSetRamp ==
  /\ State = MS_RUNNING
  /\ At("run", "reramped")
  /\ \E r \in RampChanges : SetRamp(r)

RampRun ==
  /\ pc \in {"run", "reramped"}
  /\ Run(MaxN)
  /\ UNCHANGED <<pinVars, hostVars>>

RampTick ==
  /\ pc \in {"run", "reramped"}
  /\ State = MS_RUNNING
  /\ micros < NextStepMicros
  /\ Advance(TickMicros)
  /\ UNCHANGED <<pinVars, hostVars>>

RampInit == Fresh({-1}, {U32(0)}, {HIGH}) /\ pc = "off" /\ cmd = NoCmd

RampNext ==
  \/ RampEnable
  \/ RampRotate
  \/ RampSetRamp
  \/ RampRun
  \/ RampTick

RampSpec == RampInit /\ [][RampNext]_vars

-----------------------------------------------------------------------------
(* ExecuteCommand for the RA and RR packets: two command characters, four  *)
(* characters of velocity, then the target or the number of steps.  The    *)
(* velocity field is a sequence of characters, converted as strtol does.   *)

DigitChars == <<"0", "1", "2", "3", "4", "5", "6", "7", "8", "9">>

IsDigit(c) == \E d \in 1 .. 10 : DigitChars[d] = c

DigitValue(c) == (CHOOSE d \in 1 .. 10 : DigitChars[d] = c) - 1

RECURSIVE SkipSpaces(_)
SkipSpaces(s) ==
  IF s # <<>> /\ Head(s) = " " THEN SkipSpaces(Tail(s)) ELSE s

RECURSIVE ParseDigits(_, _)
ParseDigits(s, acc) ==
  IF s = <<>> \/ ~IsDigit(Head(s)) THEN acc
  ELSE ParseDigits(Tail(s), 10 * acc + DigitValue(Head(s)))

\* strtol (s, NULL, 10): white space, an optional sign, then digits as far
\* as they go; 0 if there are none
strtol(s) ==
  LET t == SkipSpaces(s) IN
    IF t = <<>> THEN 0
    ELSE IF Head(t) = "-" THEN 0 - ParseDigits(Tail(t), 0)
    ELSE IF Head(t) = "+" THEN ParseDigits(Tail(t), 0)
    ELSE ParseDigits(t, 0)

\* velocity fields of the packets this host sends
VelocityFields ==
  {<<"0", "0", "3", "0">>, <<"3", "0", " ", " ">>, <<"9", "9", "9", "9">>,
   <<"0", "0", "0", "0">>, <<" ", " ", " ", " ">>, <<"-", "0", "1", "2">>}

CommandEnable == At("off", "on") /\ Enable

CommandRotateAbsolute ==
  /\ pc = "on"
  /\ pc' = "run"
  /\ \E velString \in VelocityFields, targetOrNumSteps \in PollSteps :
       /\ RotateAbsolute(targetOrNumSteps, strtol(velString))
       /\ cmd' = [op |-> "RA", n |-> targetOrNumSteps,
                   v |-> strtol(velString)]
  /\ UNCHANGED pinVars

CommandRotateRelative ==
  /\ pc = "on"
  /\ pc' = "run"
  /\ \E velString \in VelocityFields, targetOrNumSteps \in PollSteps :
       /\ RotateRelative(targetOrNumSteps, strtol(velString))
       /\ cmd' = [op |-> "RR", n |-> targetOrNumSteps,
                   v |-> strtol(velString)]
  /\ UNCHANGED pinVars

CommandRun == pc = "run" /\ Run(MaxN) /\ UNCHANGED <<pinVars, hostVars>>

CommandTick ==
  /\ pc = "run"
  /\ State = MS_RUNNING
  /\ micros < NextStepMicros
  /\ Advance(TickMicros)
  /\ UNCHANGED <<pinVars, hostVars>>

CommandInit == Fresh({-1}, {U32(0)}, {HIGH}) /\ pc = "off" /\ cmd = NoCmd

CommandNext ==
  \/ CommandEnable
  \/ CommandRotateAbsolute
  \/ CommandRotateRelative
  \/ CommandRun
  \/ CommandTick

CommandSpec == CommandInit /\ [][CommandNext]_vars

TypeOK ==
  /\ Homed \in BOOLEAN
  /\ State \in MotorState
  /\ StepIncrement \in {-1, 1}
  /\ ret \in RunReturn
  /\ pulses \in 0 .. (2 * MaxSeek + FindHomeExtraSteps)
  /\ NextStepMicros \in U32Min .. U32Max

-----------------------------------------------------------------------------
(* Properties *)

InRange ==
  LowerLimit <= AbsolutePosition /\ AbsolutePosition <= UpperLimit

DefaultLimits ==
  LowerLimit = DefaultLowerLimit /\ UpperLimit = DefaultUpperLimit

\* a rotate method is called
RotateCall ==
  \/ \E p \in PosRange, v \in Velocities : RotateAbsolute(p, v)
  \/ \E n \in PosRange, v \in Velocities : RotateRelative(n, v)
  \/ RotateToHome
  \/ RotateToLowerLimit
  \/ RotateToUpperLimit

planVars ==
  <<TargetPosition, MaxVelocity, TotalSteps, RampSteps, RampDownStep,
    Velocity, StepIncrement, NextStepMicros>>

\* C1: whenever the last call was a Run that emitted a step pulse, the
\* position it stepped to lies inside [LowerLimit, UpperLimit], the limits
\* being those in force at that call; this holds after every sequence of
\* commands, rotate commands that interrupt a rotation included.
C1_PulseInsideRange == (pulses = 1) => InRange

\* the pulse reached the configured upper limit of a rotation aimed beyond it
C1_Witness ==
  /\ pulses = 1
  /\ UpperLimit = MaxLim
  /\ AbsolutePosition = UpperLimit
  /\ TargetPosition > UpperLimit

\* C2: after every Run call returns, LowerLimit <= AbsolutePosition <=
\* UpperLimit, whatever public operations were interleaved with the Run calls.
C2_InRangeAfterRun == [][Run(MaxPos) => InRange']_vars

\* C3: while State is MS_RUNNING in a rotation with a positive peak velocity,
\* Velocity is never negative, up to and including the state after the last
\* step of the rotation.
C3_VelocityNonNegative ==
  (State = MS_RUNNING /\ MaxVelocity > 0) => (Velocity >= 0)

\* C4: a rotate method called while Homed is false changes neither State nor
\* TargetPosition, DeltaPosition or the ramp plan.
C4_RotateNeedsHomed ==
  [][(~Homed /\ RotateCall) =>
       UNCHANGED <<State, DeltaPosition, planVars>>]_vars

\* C5: a Run call made while State is not MS_RUNNING, or Homed is false, or
\* the counter is below NextStepMicros, returns OKAY, emits no pulse and
\* leaves State, AbsolutePosition, DeltaPosition, Velocity and NextStepMicros
\* as they were.
C5_RunIdleIsNoOp ==
  [][(Run(MaxPos) /\ (State # MS_RUNNING \/ ~Homed \/ micros < NextStepMicros))
       => /\ ret' = OKAY
          /\ pulses' = 0
          /\ UNCHANGED <<State, AbsolutePosition, DeltaPosition, Velocity,
                         NextStepMicros>>]_vars

\* a homed, running motor short of its target whose next step is not yet due:
\* the state a Run call made here leaves behind
C5_Witness ==
  /\ Homed
  /\ State = MS_RUNNING
  /\ micros < NextStepMicros
  /\ AbsolutePosition # TargetPosition
  /\ DeltaPosition # 0
  /\ ret = OKAY
  /\ pulses = 0

\* C6: EStop sets State to MS_ESTOPPED, clears Homed and sets TargetPosition
\* to AbsolutePosition; from then until Enable is called (by the host or by
\* FindHome) Homed stays false, no call emits a pulse and AbsolutePosition
\* does not change, whatever other commands are issued.
C6_EStopHolds ==
  [][/\ EStop => /\ State' = MS_ESTOPPED
                 /\ ~Homed'
                 /\ TargetPosition' = AbsolutePosition'
     /\ (EStopLatched /\ EStopLatched') =>
          /\ ~Homed'
          /\ pulses' = 0
          /\ AbsolutePosition' = AbsolutePosition]_vars

\* after an EStop a rotate command has set State to MS_RUNNING and its first
\* step is due, yet the motor has not moved
C6_Witness ==
  /\ EStopLatched
  /\ State = MS_RUNNING
  /\ micros >= NextStepMicros
  /\ AbsolutePosition # TargetPosition
  /\ ret = OKAY
  /\ pulses = 0
  /\ elapsed = MaxTicks * TickMicros

C8_InclusiveLimit ==
  /\ [](pc = "poll" => InRange)
  /\ [](ret = RANGE_ERROR_LOWER => AbsolutePosition = LowerLimit)
  /\ [](ret = RANGE_ERROR_UPPER => AbsolutePosition = UpperLimit)
  /\ [](pc = "poll" /\ State = MS_RUNNING /\ cmd.n < LowerLimit =>
          <>(ret = RANGE_ERROR_LOWER /\ AbsolutePosition = LowerLimit))
  /\ [](pc = "poll" /\ State = MS_RUNNING /\ cmd.n > UpperLimit =>
          <>(ret = RANGE_ERROR_UPPER /\ AbsolutePosition = UpperLimit))

\* Run has reported the lower limit, reached after a rotation aimed below it
C8_Witness ==
  /\ pc = "poll"
  /\ ret = RANGE_ERROR_LOWER
  /\ LowerLimit = 0 - MaxLim
  /\ cmd.n < LowerLimit
  /\ AbsolutePosition = LowerLimit
  /\ DeltaPosition = LowerLimit

\* C9: the Run call that returns RANGE_ERROR_LOWER or RANGE_ERROR_UPPER
\* emits no pulse, leaves AbsolutePosition and DeltaPosition unchanged and
\* sets State to MS_ENABLED; of the Run calls that come to step (homed,
\* running, due, not at the target) it returns RANGE_ERROR_LOWER exactly when
\* AbsolutePosition + StepIncrement < LowerLimit, and RANGE_ERROR_UPPER
\* exactly when that sum is not below LowerLimit and is above UpperLimit.
C9_RangeError ==
  [][Run(MaxPos) =>
       LET np == AbsolutePosition + StepIncrement
           stepping == /\ Homed
                       /\ State = MS_RUNNING
                       /\ micros >= NextStepMicros
                       /\ AbsolutePosition # TargetPosition
       IN  /\ (ret' = RANGE_ERROR_LOWER) <=> (stepping /\ np < LowerLimit)
           /\ (ret' = RANGE_ERROR_UPPER) <=>
                (stepping /\ ~(np < LowerLimit) /\ np > UpperLimit)
           /\ (ret' \in {RANGE_ERROR_LOWER, RANGE_ERROR_UPPER}) =>
                /\ pulses' = 0
                /\ AbsolutePosition' = AbsolutePosition
                /\ DeltaPosition' = DeltaPosition
                /\ State' = MS_ENABLED]_vars

\* Run has refused the step beyond the configured upper limit
C9_Witness ==
  /\ ret = RANGE_ERROR_UPPER
  /\ State = MS_ENABLED
  /\ pulses = 0
  /\ UpperLimit = MaxLim
  /\ AbsolutePosition = UpperLimit
  /\ DeltaPosition = 1
  /\ TargetPosition > UpperLimit

\* C10: a Run call that comes to read the limit switches has emitted one
\* pulse and advanced AbsolutePosition and DeltaPosition by StepIncrement;
\* if the lower switch has a pin and reads LOW it sets State to MS_ENABLED
\* and returns LIMIT_SWITCH_LOWER, otherwise if the upper switch has a pin and
\* reads LOW it returns LIMIT_SWITCH_UPPER, in both cases leaving Velocity and
\* NextStepMicros unchanged; a switch without a pin never stops the motion.
C10_LimitSwitch ==
  [][Run(MaxPos) =>
       LET np == AbsolutePosition + StepIncrement
           checked == /\ Homed
                      /\ State = MS_RUNNING
                      /\ micros >= NextStepMicros
                      /\ AbsolutePosition # TargetPosition
                      /\ LowerLimit <= np
                      /\ np <= UpperLimit
           lower == LLSwitchPin >= 0 /\ LLSwitch' = LOW
           upper == ULSwitchPin >= 0 /\ ULSwitch' = LOW
       IN  /\ checked => /\ pulses' = 1
                         /\ AbsolutePosition' = np
                         /\ DeltaPosition' = DeltaPosition + StepIncrement
           /\ (checked /\ lower) =>
                /\ ret' = LIMIT_SWITCH_LOWER
                /\ State' = MS_ENABLED
                /\ UNCHANGED <<Velocity, NextStepMicros>>
           /\ (checked /\ ~lower /\ upper) =>
                /\ ret' = LIMIT_SWITCH_UPPER
                /\ State' = MS_ENABLED
                /\ UNCHANGED <<Velocity, NextStepMicros>>
           /\ (checked /\ ~lower /\ ~upper) =>
                /\ ret' = OKAY
                /\ State' = MS_RUNNING
           /\ ~checked => ret' \notin {LIMIT_SWITCH_LOWER, LIMIT_SWITCH_UPPER}
      ]_vars

\* the upper switch stopped the motor after its pulse while the input of the
\* lower switch, which has no pin, was LOW
C10_Witness ==
  /\ ret = LIMIT_SWITCH_UPPER
  /\ State = MS_ENABLED
  /\ pulses = 1
  /\ LLSwitchPin < 0
  /\ LLSwitch = LOW
  /\ ULSwitchPin >= 0
  /\ ULSwitch = LOW
  /\ DeltaPosition # 0
  /\ AbsolutePosition # TargetPosition

\* C11: LowerLimit <= 0 <= UpperLimit in every reachable state; SetLowerLimit(x)
\* assigns LowerLimit = x only when x <= 0 and x <= UpperLimit, SetUpperLimit(x)
\* assigns UpperLimit = x only when x >= 0 and x >= LowerLimit, and a call with
\* any other value leaves both limits, every other member and the output pins
\* unchanged.
C11_LimitsStraddleHome ==
  /\ [](LowerLimit <= 0 /\ 0 <= UpperLimit)
  /\ [][\A x \in LimitInputs :
          /\ SetLowerLimit(x) =>
                IF x <= 0 /\ x <= UpperLimit
                THEN LowerLimit' = x /\ UpperLimit' = UpperLimit
                ELSE UNCHANGED <<motorVars, outVars>>
          /\ SetUpperLimit(x) =>
                IF x >= 0 /\ x >= LowerLimit
                THEN UpperLimit' = x /\ LowerLimit' = LowerLimit
                ELSE UNCHANGED <<motorVars, outVars>>]_vars

\* both setters have replaced the limits of the constructor, so that each value
\* of LimitInputs is accepted by one setter and rejected by the other
C11_Witness ==
  /\ LowerLimit = 0 - MaxLim
  /\ UpperLimit = MaxLim
  /\ ret = OKAY
  /\ pulses = 0

\* C12: Enable called in any state leaves State = MS_ENABLED, the enable
\* output LOW, Homed true and AbsolutePosition = DeltaPosition = 0; a rotation
\* in progress is halted: from then on, while State stays MS_ENABLED, no Run
\* call emits a pulse or moves the position, and State becomes MS_RUNNING
\* again only by a rotate method.
C12_EnableHomesAndHalts ==
  [][/\ Enable => /\ State' = MS_ENABLED
                  /\ EnableOut' = LOW
                  /\ Homed'
                  /\ AbsolutePosition' = 0
                  /\ DeltaPosition' = 0
     /\ (State = MS_ENABLED) =>
          /\ Run(MaxPos) => (pulses' = 0 /\ UNCHANGED AbsolutePosition)
          /\ (State' = MS_RUNNING) => RotateCall]_vars

\* Enable was called after the first step of a rotation toward MaxPos: the
\* position is HOME again, the target is still ahead and the next step is due
C12_Witness ==
  /\ State = MS_ENABLED
  /\ EnableOut = LOW
  /\ Homed
  /\ AbsolutePosition = 0
  /\ DeltaPosition = 0
  /\ TargetPosition = MaxPos
  /\ DefaultLimits
  /\ Velocity = VelocityIncrement
  /\ Velocity > 0
  /\ micros >= NextStepMicros
  /\ ret = OKAY
  /\ pulses = 0

\* C13: Disable called in any state leaves State = MS_DISABLED, the enable
\* output HIGH and Homed false, and changes neither the positions, the target,
\* the limits nor the ramp plan; called when State is already MS_DISABLED it
\* changes no member and no output pin.
C13_DisableIdempotent ==
  [][Disable =>
       /\ State' = MS_DISABLED
       /\ EnableOut' = HIGH
       /\ ~Homed'
       /\ UNCHANGED <<AbsolutePosition, DeltaPosition, LowerLimit, UpperLimit,
                      VelocityIncrement, planVars>>
       /\ (State = MS_DISABLED) => UNCHANGED <<motorVars, outVars>>]_vars

\* Disable was called in the middle of a rotation: the position reached and
\* the target ahead of it are still there
C13_Witness ==
  /\ State = MS_DISABLED
  /\ EnableOut = HIGH
  /\ ~Homed
  /\ ~EStopLatched
  /\ AbsolutePosition = 1
  /\ DeltaPosition = 1
  /\ TargetPosition = MaxPos
  /\ ret = OKAY
  /\ pulses = 0

\* C14: a rotate command issued while State is MS_RUNNING and Homed replans
\* from the position the motor has reached: TotalSteps is the distance from
\* that position to the new target, DeltaPosition is 0 again and StepIncrement
\* points from that position to the new target (+1 above it, -1 below it);
\* every later pulse brings the motor nearer to the new target, and with no
\* limit in the way Run comes to return RUN_COMPLETE at the new target and
\* never stops anywhere else.
C14_InterruptReplans ==
  /\ [][(pc = "first" /\ pc' = "second") =>
          /\ TargetPosition' = cmd'.n
          /\ TotalSteps' = abs(cmd'.n - AbsolutePosition)
          /\ DeltaPosition' = 0
          /\ AbsolutePosition' = AbsolutePosition
          /\ State' = MS_RUNNING
          /\ (cmd'.n > AbsolutePosition) => (StepIncrement' = 1)
          /\ (cmd'.n < AbsolutePosition) => (StepIncrement' = -1)]_vars
  /\ [][(pc = "second" /\ pulses' = 1 /\ Run(MaxPos)) =>
          abs(cmd.n - AbsolutePosition') < abs(cmd.n - AbsolutePosition)]_vars
  /\ [](pc = "second" /\ State # MS_RUNNING => AbsolutePosition = cmd.n)
  /\ [](pc = "second" /\ State = MS_RUNNING =>
          <>(ret = RUN_COMPLETE /\ AbsolutePosition = cmd.n))

\* a rotation toward MaxPos was interrupted after its first step by a rotate
\* command toward -MaxPos, which has completed there
C14_Witness ==
  /\ pc = "second"
  /\ cmd.prev = MaxPos
  /\ cmd.n = 0 - MaxPos
  /\ ret = RUN_COMPLETE
  /\ AbsolutePosition = 0 - MaxPos
  /\ DeltaPosition = 0 - (MaxPos + 1)

\* the rotation of the polling host: its distance, and the length of a full
\* ramp to its speed
Distance == abs(cmd.n)

FullRamp == IF VelocityIncrement = 0 THEN 0 ELSE cmd.v \div VelocityIncrement

\* a step of that rotation
PollStep == pc = "poll" /\ Run(MaxN) /\ pulses' = 1

\* C15: in a rotation over distance steps at speed MaxVelocity > 0 with
\* VelocityIncrement > 0 and distance > 2 * R, R = MaxVelocity /
\* VelocityIncrement, the steps are numbered 1 .. distance in turn; Run adds
\* VelocityIncrement to Velocity on steps 1 .. R, leaves Velocity as it is on
\* steps R + 1 .. distance - R, and subtracts VelocityIncrement on the last R
\* steps; a rotation that completes has taken all distance steps, hence R up,
\* distance - 2 * R > 0 level and R down.
C15_Trapezoid ==
  /\ [][(PollStep /\ VelocityIncrement > 0 /\ Distance > 2 * FullRamp) =>
          LET k == abs(DeltaPosition') IN
            /\ k = abs(DeltaPosition) + 1
            /\ k <= Distance
            /\ (k <= FullRamp) =>
                 (Velocity' = Velocity + VelocityIncrement)
            /\ (FullRamp < k /\ k <= Distance - FullRamp) =>
                 (Velocity' = Velocity)
            /\ (k > Distance - FullRamp) =>
                 (Velocity' = Velocity - VelocityIncrement)]_vars
  /\ [](pc = "poll" /\ ret = RUN_COMPLETE /\ DefaultLimits =>
          abs(DeltaPosition) = Distance)

\* a trapezoid of two steps up, one level and two down has completed
C15_Witness ==
  /\ pc = "poll"
  /\ DefaultLimits
  /\ VelocityIncrement = 5
  /\ cmd.v = 12
  /\ cmd.n = MaxN
  /\ FullRamp = 2
  /\ Distance = 2 * FullRamp + 1
  /\ ret = RUN_COMPLETE
  /\ DeltaPosition = MaxN
  /\ Velocity = 0

\* C16: in a trapezoid plan (VelocityIncrement > 0, a full ramp of R >= 1
\* steps, distance > 2 * R) Velocity equals MaxVelocity after every plateau
\* step, the steps R + 1 .. distance - R.
C16_PlateauAtMaxVelocity ==
  (/\ pc = "poll"
   /\ VelocityIncrement > 0
   /\ FullRamp >= 1
   /\ Distance > 2 * FullRamp
   /\ pulses = 1
   /\ FullRamp < abs(DeltaPosition)
   /\ abs(DeltaPosition) <= Distance - FullRamp)
    => (Velocity = MaxVelocity /\ MaxVelocity = cmd.v)

\* a rotate method is called and reaches startRotation
RotateStart ==
  \/ \E p \in PosRange, v \in Velocities : RotateAbsolute(p, v)
  \/ \E n \in PosRange \ {0}, v \in Velocities : RotateRelative(n, v)
  \/ RotateToHome
  \/ RotateToLowerLimit
  \/ RotateToUpperLimit

\* C17: SetRamp(0) makes VelocityIncrement 0; every rotate method called with
\* VelocityIncrement = 0 plans RampSteps = 0 and starts with Velocity =
\* MaxVelocity, and every step Run takes while VelocityIncrement is 0 leaves
\* Velocity as it was, so Velocity equals MaxVelocity from the first step of
\* such a rotation to its last.
C17_NoRamp ==
  [][/\ SetRamp(0) => (VelocityIncrement' = 0)
     /\ (VelocityIncrement = 0 /\ RotateStart) =>
          /\ RampSteps' = 0
          /\ Velocity' = MaxVelocity'
     /\ (VelocityIncrement = 0 /\ Run(MaxPos)) =>
          /\ Velocity' = Velocity
          /\ MaxVelocity' = MaxVelocity
          /\ RampSteps' = RampSteps]_vars

\* the first step of a rotation planned after SetRamp(0) has been taken at
\* full speed
C17_Witness ==
  /\ VelocityIncrement = 0
  /\ State = MS_RUNNING
  /\ RampSteps = 0
  /\ RampDownStep = TotalSteps
  /\ TotalSteps = MaxPos
  /\ pulses = 1
  /\ DeltaPosition = 1
  /\ Velocity = MaxVelocity
  /\ MaxVelocity \in Velocities

\* C18: a Run call emits no pulse or one; it changes AbsolutePosition if and
\* only if it emits a pulse, and then AbsolutePosition and DeltaPosition both
\* change by StepIncrement, which is +1 or -1; without a pulse DeltaPosition
\* does not change either.  This holds whether the call goes on to schedule
\* the next step or returns early for a limit switch.
C18_OnePulseOneStep ==
  [][Run(MaxPos) =>
       /\ pulses' \in {0, 1}
       /\ (AbsolutePosition' # AbsolutePosition) <=> (pulses' = 1)
       /\ (pulses' = 1) =>
            /\ StepIncrement \in {-1, 1}
            /\ StepIncrement' = StepIncrement
            /\ AbsolutePosition' = AbsolutePosition + StepIncrement
            /\ DeltaPosition' = DeltaPosition + StepIncrement
       /\ (pulses' = 0) => (DeltaPosition' = DeltaPosition)]_vars

\* Run stepped down from HOME and the lower limit switch ended the call: the
\* pulse is already counted in both positions
C18_Witness ==
  /\ pulses = 1
  /\ ret = LIMIT_SWITCH_LOWER
  /\ LLSwitchPin >= 0
  /\ StepIncrement = -1
  /\ AbsolutePosition = -1
  /\ DeltaPosition = -1
  /\ TargetPosition = 0 - MaxPos

\* C19: in every reachable state Homed implies that State is MS_ENABLED or
\* MS_RUNNING; every Disable and every EStop leaves Homed false; and
\* SetHomePosition changes nothing at all unless State is MS_ENABLED, when it
\* sets Homed and zeroes AbsolutePosition and DeltaPosition.
C19_HomedOnlyWhenEnabled ==
  /\ [](Homed => State \in {MS_ENABLED, MS_RUNNING})
  /\ [][/\ (Disable \/ EStop) => ~Homed'
        /\ (SetHomePosition /\ State # MS_ENABLED) =>
             UNCHANGED <<motorVars, outVars>>
        /\ (SetHomePosition /\ State = MS_ENABLED) =>
             /\ Homed'
             /\ AbsolutePosition' = 0
             /\ DeltaPosition' = 0]_vars

\* EStop ended a rotation after its first step: Homed is false, and a
\* SetHomePosition called here must leave the position at 1
C19_Witness ==
  /\ State = MS_ESTOPPED
  /\ EStopLatched
  /\ ~Homed
  /\ AbsolutePosition = 1
  /\ DeltaPosition = 1
  /\ TargetPosition = AbsolutePosition
  /\ ret = OKAY
  /\ pulses = 0

\* C20: a rotate method called with VelocityIncrement > 0 for a distance of at
\* most 2 * (MaxVelocity / VelocityIncrement) steps plans RampSteps =
\* RampDownStep = distance / 2, rounded down; every step Run takes under such
\* a plan changes Velocity, adding VelocityIncrement on steps 1 .. RampSteps
\* and subtracting it on every later step, so no step is a plateau step.
C20_Triangle ==
  /\ [][(pc' # pc /\ pc' \in {"first", "second"}) =>
          LET distance == abs(cmd'.n - AbsolutePosition) IN
            (/\ VelocityIncrement > 0
             /\ distance <= 2 * (cmd'.v \div VelocityIncrement)) =>
              /\ MaxVelocity' = cmd'.v
              /\ TotalSteps' = distance
              /\ RampSteps' = distance \div 2
              /\ RampDownStep' = distance \div 2]_vars
  /\ [][(/\ pc \in {"first", "second"}
         /\ Run(MaxPos)
         /\ pulses' = 1
         /\ VelocityIncrement > 0
         /\ TotalSteps <= 2 * (MaxVelocity \div VelocityIncrement)) =>
          LET k == abs(DeltaPosition') IN
            /\ k \in 1 .. TotalSteps
            /\ (k <= TotalSteps \div 2) =>
                 (Velocity' = Velocity + VelocityIncrement)
            /\ (k > TotalSteps \div 2) =>
                 (Velocity' = Velocity - VelocityIncrement)]_vars

\* a triangle over the whole position range has completed: two steps up and
\* two steps down
C20_Witness ==
  /\ pc = "second"
  /\ VelocityIncrement = 10
  /\ cmd.v = 30
  /\ cmd.n = 0 - MaxPos
  /\ TotalSteps = 2 * MaxPos
  /\ RampSteps = MaxPos
  /\ RampDownStep = MaxPos
  /\ ret = RUN_COMPLETE
  /\ DeltaPosition = 0 - 2 * MaxPos
  /\ Velocity = 0

\* C21: a due Run call made with State = MS_RUNNING, Homed and
\* AbsolutePosition = TargetPosition emits no pulse, sets State to MS_ENABLED
\* and returns RUN_COMPLETE, also when the next position would lie outside
\* the limits; so a rotate command whose target is the position the motor is
\* at plans zero steps, and the next due Run returns RUN_COMPLETE without a
\* pulse and without moving.
C21_CompleteBeforeRange ==
  [][/\ (/\ pc \in {"first", "second"}
         /\ Run(MaxPos)
         /\ Homed
         /\ State = MS_RUNNING
         /\ micros >= NextStepMicros
         /\ AbsolutePosition = TargetPosition) =>
          /\ ret' = RUN_COMPLETE
          /\ State' = MS_ENABLED
          /\ pulses' = 0
          /\ UNCHANGED <<AbsolutePosition, DeltaPosition>>
     /\ (pc = "first" /\ pc' = "second" /\ cmd'.n = AbsolutePosition) =>
          /\ TargetPosition' = AbsolutePosition
          /\ TotalSteps' = 0
          /\ DeltaPosition' = 0
          /\ State' = MS_RUNNING
          /\ UNCHANGED <<AbsolutePosition, Homed>>]_vars

\* a rotation was interrupted at the upper limit by a rotate command to that
\* same position; Run has completed it, with the next position out of range
C21_Witness ==
  /\ pc = "second"
  /\ ret = RUN_COMPLETE
  /\ State = MS_ENABLED
  /\ pulses = 0
  /\ TotalSteps = 0
  /\ DeltaPosition = 0
  /\ cmd.n = AbsolutePosition
  /\ AbsolutePosition = UpperLimit
  /\ StepIncrement = 1

\* C22: a Run call returns a result other than OKAY only if it starts with
\* State = MS_RUNNING and Homed, and it then ends with State = MS_ENABLED; a
\* Run call that starts in another state returns OKAY, and State becomes
\* MS_RUNNING only by a rotate method, so each rotate command is answered by
\* at most one result other than OKAY.
C22_OneResultPerRotation ==
  [][/\ (Run(MaxPos) /\ ret' # OKAY) =>
          /\ State = MS_RUNNING
          /\ Homed
          /\ State' = MS_ENABLED
     /\ (Run(MaxPos) /\ State # MS_RUNNING) => (ret' = OKAY)
     /\ (State # MS_RUNNING /\ State' = MS_RUNNING) => RotateStart]_vars

\* Run has reported the completion of a rotation that moved the motor
C22_Witness ==
  /\ ret = RUN_COMPLETE
  /\ State = MS_ENABLED
  /\ Homed
  /\ pulses = 0
  /\ DeltaPosition # 0
  /\ AbsolutePosition = TargetPosition

\* C23: FindHome called on an instance without a lower limit switch emits no
\* pulse and changes no member and no output pin.  With the switch, FindHome
\* returns from any state with State = MS_ENABLED, Homed true, the enable
\* output LOW and AbsolutePosition = DeltaPosition = 0, the switch released;
\* its pulses are those of the seek toward the switch (none if the switch
\* was asserted at the call, at least one if not), those of the back-off, and
\* 10 more after the release.
C23_FindHome ==
  [][FindHome =>
       IF LLSwitchPin < 0
       THEN pulses' = 0 /\ UNCHANGED <<motorVars, outVars>>
       ELSE /\ State' = MS_ENABLED
            /\ Homed'
            /\ EnableOut' = LOW
            /\ AbsolutePosition' = 0
            /\ DeltaPosition' = 0
            /\ LLSwitch' = HIGH
            /\ pulses' >= 10
            /\ pulses' <= 10 + 2 * MaxSeek
            /\ (LLSwitch = LOW) => (pulses' <= 10 + MaxSeek)
            /\ (LLSwitch = HIGH) => (pulses' >= 10 + 1)]_vars

\* FindHome has returned after the longest seek and the longest back-off, on
\* an instance that was in the middle of a plan
C23_Witness ==
  /\ LLSwitchPin >= 0
  /\ pulses = 10 + 2 * MaxSeek
  /\ State = MS_ENABLED
  /\ Homed
  /\ AbsolutePosition = 0
  /\ DeltaPosition = 0
  /\ LLSwitch = HIGH
  /\ TargetPosition # 0

\* C24: after a rotate command issued while Homed, with Run polled while the
\* counter advances, Run comes to return a result other than OKAY and State
\* becomes MS_ENABLED; until then and after, |DeltaPosition| <= TotalSteps
\* (DeltaPosition counts the pulses since the command), AbsolutePosition
\* stays on the near side of TargetPosition, and every pulse moves the motor
\* one step toward it.
C24_NoOvershoot ==
  /\ [](pc \in {"first", "second"} =>
          /\ abs(DeltaPosition) <= TotalSteps
          /\ abs(DeltaPosition) + abs(TargetPosition - AbsolutePosition)
               = TotalSteps
          /\ (StepIncrement = 1) => (AbsolutePosition <= TargetPosition)
          /\ (StepIncrement = -1) => (AbsolutePosition >= TargetPosition))
  /\ [][(pc \in {"first", "second"} /\ Run(MaxPos) /\ pulses' = 1) =>
          abs(DeltaPosition') = abs(DeltaPosition) + 1]_vars
  /\ [](pc \in {"first", "second"} /\ State = MS_RUNNING =>
          <>(ret # OKAY /\ State = MS_ENABLED))

\* a rotation toward -MaxPos was interrupted after its first step by a rotate
\* command toward MaxPos, which has completed after MaxPos + 1 pulses
C24_Witness ==
  /\ pc = "second"
  /\ cmd.prev = 0 - MaxPos
  /\ cmd.n = MaxPos
  /\ ret = RUN_COMPLETE
  /\ State = MS_ENABLED
  /\ TotalSteps = MaxPos + 1
  /\ DeltaPosition = TotalSteps
  /\ AbsolutePosition = TargetPosition

Sign(x) == IF x > 0 THEN 1 ELSE IF x < 0 THEN -1 ELSE 0

\* C25: whenever Run emits a pulse, StepIncrement is the sign of
\* TargetPosition - AbsolutePosition before the step, so the pulse brings the
\* motor one step nearer to the target, and the direction output is LOW for
\* StepIncrement = +1 and HIGH for -1; this holds after every sequence of
\* commands, FindHome (which drives the direction output itself) and Enable
\* included.
C25_DirectionConsistent ==
  [][(Run(MaxPos) /\ pulses' = 1) =>
       /\ StepIncrement = Sign(TargetPosition - AbsolutePosition)
       /\ abs(TargetPosition - AbsolutePosition')
            = abs(TargetPosition - AbsolutePosition) - 1
       /\ DirectionOut = (IF StepIncrement = 1 THEN LOW ELSE HIGH)
       /\ UNCHANGED <<DirectionOut, StepIncrement, TargetPosition>>]_vars

\* on an instance with a lower limit switch, Run has stepped down from HOME
\* with the direction output HIGH and goes on
C25_Witness ==
  /\ LLSwitchPin >= 0
  /\ Homed
  /\ State = MS_RUNNING
  /\ pulses = 1
  /\ ret = OKAY
  /\ StepIncrement = -1
  /\ DirectionOut = HIGH
  /\ AbsolutePosition = -1
  /\ TargetPosition = 0 - MaxPos

\* C26: in every reachable state Homed implies that the enable output is LOW,
\* and Run emits a pulse only with the enable output LOW, although a rotate
\* method called in MS_DISABLED or MS_ESTOPPED sets State to MS_RUNNING.
C26_NoPulseWhileReleased ==
  /\ [](Homed => EnableOut = LOW)
  /\ [][(Run(MaxPos) /\ pulses' = 1) =>
          (EnableOut = LOW /\ EnableOut' = LOW)]_vars
  /\ [][(Run(MaxPos) /\ EnableOut = HIGH) =>
          (pulses' = 0 /\ ret' = OKAY /\ UNCHANGED motorVars)]_vars

\* after Disable a rotate command has set State to MS_RUNNING and its first
\* step is due, with the driver released
C26_Witness ==
  /\ EnableOut = HIGH
  /\ ~Homed
  /\ ~EStopLatched
  /\ State = MS_RUNNING
  /\ micros >= NextStepMicros
  /\ AbsolutePosition # TargetPosition
  /\ ret = OKAY
  /\ pulses = 0

\* C27: in every reachable state with State = MS_RUNNING, Velocity <=
\* MaxVelocity, SetRamp calls during a rotation included.
C27_VelocityCapped == (State = MS_RUNNING) => (Velocity <= MaxVelocity)

\* C28: whenever State = MS_RUNNING, MaxVelocity > 0, for rotations started
\* through the RA and RR packets with their four-character velocity field, so
\* that the division by MaxVelocity in GetRemainingTime is defined.
C28_MaxVelocityPositive == (State = MS_RUNNING) => (MaxVelocity > 0)

\* the time between the rotate command of the polling host, issued when the
\* instance was made, and the step that NextStepMicros schedules: their
\* difference modulo 2^32, which is 10 microseconds plus the periods
\* 1000000 / Velocity added after the pulses so far
ScheduledDelay ==
  IF NextStepMicros >= epoch THEN NextStepMicros - epoch
  ELSE ((NextStepMicros - U32Min) + (U32Max - epoch)) + 1

\* C29: every pulse of an uninterrupted rotation is emitted no earlier than
\* the start of the rotation plus 10 microseconds plus the sum of the periods
\* 1000000 / Velocity scheduled after the pulses before it, the counter and
\* NextStepMicros being 32-bit unsigned values that may wrap during the
\* rotation.
C29_PacedAcrossWrap == [][PollStep => elapsed >= ScheduledDelay]_vars

\* a limit switch with a pin has been asserted since the last rotate command
Held == cmd.lower \/ cmd.upper

\* C30: while a limit switch with a pin stays asserted, from a rotate command
\* on, Run emits at most one pulse for that command, whatever its direction:
\* the Run that emits the pulse returns LIMIT_SWITCH_LOWER if the lower
\* switch reads asserted and LIMIT_SWITCH_UPPER otherwise, and sets State to
\* MS_ENABLED; the switches are read only after the pulse, so the first due
\* Run of a rotation that is not at its target and stays in range emits one
\* pulse although the switch is asserted already.
C30_HeldSwitchOnePulse ==
  /\ [](pc = "poll" /\ Held => abs(DeltaPosition) <= 1)
  /\ [](pc = "poll" /\ Held /\ DeltaPosition # 0 => State = MS_ENABLED)
  /\ [][(HeldRun /\ Held' /\ pulses' = 1) =>
          /\ DeltaPosition = 0
          /\ State' = MS_ENABLED
          /\ ret' = IF LLSwitchPin >= 0 /\ LLSwitch' = LOW
                    THEN LIMIT_SWITCH_LOWER
                    ELSE LIMIT_SWITCH_UPPER]_vars
  /\ [][(/\ HeldRun
         /\ Held
         /\ Homed
         /\ State = MS_RUNNING
         /\ micros >= NextStepMicros
         /\ AbsolutePosition # TargetPosition
         /\ LowerLimit <= AbsolutePosition + StepIncrement
         /\ AbsolutePosition + StepIncrement <= UpperLimit) =>
          pulses' = 1]_vars

\* with the lower switch asserted throughout, a first rotate command toward
\* the switch has moved the motor one step down from HOME and a second one,
\* away from the switch toward MaxPos, one step up again, where Run has
\* returned LIMIT_SWITCH_LOWER
C30_Witness ==
  /\ pc = "poll"
  /\ cmd.k = 2
  /\ cmd.lower
  /\ ret = LIMIT_SWITCH_LOWER
  /\ State = MS_ENABLED
  /\ pulses = 1
  /\ StepIncrement = 1
  /\ DeltaPosition = 1
  /\ AbsolutePosition = 0
  /\ TargetPosition = MaxPos

====
